---- MODULE Spec2Model ----
(***************************************************************************)
(* derive_destructure: the two derive macros of src/lib.rs, modelled as    *)
(* token-stream transformers, followed by the compiler's reading of the    *)
(* emitted tokens and the execution of the generated member operation.     *)
(*                                                                         *)
(* A token is a string.  A DeriveInput is a record                         *)
(*   [ident, generics: [params, where_clause], data: [kind, fields,        *)
(*    variants]]                                                           *)
(* with fields = [style, list] and list a sequence of [ident, ty].         *)
(***************************************************************************)
EXTENDS Integers, Sequences, FiniteSets, TLC

\* ------------------------------------------------------------------ bounds
MaxFields == 2
MaxVariants == 2

\* ------------------------------------------------------------ input space
\* Generic parameter lists of the test suite: none; <T: SomeTrait>
\* (tests/generic.rs:54, tests/enum.rs:30); <'a,'b,T: SomeTrait+'b>
\* where 'b: 'a (tests/generic.rs:64).
NoGenerics == [params |-> <<>>, where_clause |-> <<>>]

AllGenerics ==
  {NoGenerics,
   [params |-> <<[name |-> "T", bounds |-> <<"SomeTrait">>]>>,
    where_clause |-> <<>>],
   [params |-> <<[name |-> "'a", bounds |-> <<>>],
                 [name |-> "'b", bounds |-> <<>>],
                 [name |-> "T", bounds |-> <<"SomeTrait", "+", "'b">>]>>,
    where_clause |-> <<"'b", ":", "'a">>]}

\* Field names, field types and variant names of the declarations explored.
\* The k-th field is declared with the k-th name and the k-th type of a
\* palette.  The first type of a palette uses every generic parameter of the
\* declaration (i64 when there is none: tests/simple.rs:6; T:
\* tests/generic.rs:54; &'a &'b T: tests/generic.rs:65).  One palette gives
\* every field its own type, the other gives all fields the same type, where
\* the compiler cannot tell two fields apart.
FieldIdents == <<"x", "y", "z", "w">>
VariantIdents == <<"A", "B", "C", "D">>
TypeIdents == {"Foo"}
Payloads == {"p", "q"}

TyUsingParams(g) ==
  CASE Len(g.params) = 0 -> "i64"
    [] Len(g.params) = 1 -> "T"
    [] OTHER -> "&'a &'b T"

TyPalettes(g) ==
  {<<TyUsingParams(g), "String", "f64", "u8">>,
   [k \in 1..4 |-> TyUsingParams(g)]}

FieldsOf(style, n, tys) ==
  [style |-> style,
   list |-> [k \in 1..n |->
               [ident |-> IF style = "Named" THEN FieldIdents[k] ELSE "",
                ty |-> tys[k]]]]

UnitFields == [style |-> "Unit", list |-> <<>>]

AllFields(tys) ==
  {UnitFields} \cup
  {FieldsOf(s, n, tys) : s \in {"Named", "Unnamed"}, n \in 0..MaxFields}

AllVariantLists(tys) ==
  UNION {[1..n -> AllFields(tys)] : n \in 0..MaxVariants}

VariantsOf(fl) ==
  [k \in 1..Len(fl) |-> [ident |-> VariantIdents[k], fields |-> fl[k]]]

AllData(tys) ==
  {[kind |-> "Struct", fields |-> f, variants |-> <<>>] : f \in AllFields(tys)}
  \cup
  {[kind |-> "Enum", fields |-> UnitFields, variants |-> VariantsOf(fl)] :
     fl \in AllVariantLists(tys)}
  \cup
  {[kind |-> "Union", fields |-> FieldsOf("Named", n, tys), variants |-> <<>>] :
     n \in 1..MaxFields}

\* A declaration must use each of its generic parameters (E0392): it has a
\* first field somewhere, or no parameters.
HasField(d) ==
  \/ Len(d.fields.list) > 0
  \/ \E k \in 1..Len(d.variants) : Len(d.variants[k].fields.list) > 0

DataFor(g) ==
  {d \in UNION {AllData(tys) : tys \in TyPalettes(g)} :
     Len(g.params) = 0 \/ HasField(d)}

DeriveInputs ==
  UNION {{[ident |-> i, generics |-> g, data |-> d] :
            i \in TypeIdents, d \in DataFor(g)} : g \in AllGenerics}

Derives == {"destructure", "remove_trait_impls"}

\* --------------------------------------------------------- token helpers
RECURSIVE Flatten(_)
Flatten(ss) == IF Len(ss) = 0 THEN <<>> ELSE Head(ss) \o Flatten(Tail(ss))

\* quote!'s repetition  #(#iter,)*  : every element is followed by a comma.
RepeatComma(ss) == Flatten([k \in 1..Len(ss) |-> ss[k] \o <<",">>])

\* Elements separated by commas, none trailing (syn's Punctuated printing).
SeparateComma(ss) ==
  Flatten([k \in 1..Len(ss) |->
             IF k < Len(ss) THEN ss[k] \o <<",">> ELSE ss[k]])

\* syn::Index::from(i), printed as an unsuffixed integer literal.
IndexTok(i) == <<"0", "1", "2", "3">>[i + 1]

\* format!("__{}", i)
PlaceholderTok(i) == "__" \o IndexTok(i)

\* ---------------------------------------------- generics.split_for_impl()
ParamWithBounds(p) ==
  IF Len(p.bounds) = 0 THEN <<p.name>> ELSE <<p.name, ":">> \o p.bounds

impl_generics(g) ==
  IF Len(g.params) = 0 THEN <<>>
  ELSE <<"<">>
       \o SeparateComma([k \in 1..Len(g.params) |-> ParamWithBounds(g.params[k])])
       \o <<">">>

ty_generics(g) ==
  IF Len(g.params) = 0 THEN <<>>
  ELSE <<"<">>
       \o SeparateComma([k \in 1..Len(g.params) |-> <<g.params[k].name>>])
       \o <<">">>

where_clause(g) ==
  IF Len(g.where_clause) = 0 THEN <<>> ELSE <<"where">> \o g.where_clause

\* ------------------------------------------------- shared quote! fragments
Suffix == "WithoutTraitImpls"

new_type_name(name) == name \o Suffix

\* impl #impl_generics #name #ty_generics #where_clause
ImplHeader(input) ==
  <<"impl">> \o impl_generics(input.generics) \o <<input.ident>>
  \o ty_generics(input.generics) \o where_clause(input.generics)

InlineAttr == "#[inline(always)]"

\* A faulty variant of the statement below: the cell is given a borrow of the
\* receiver, which stays owned by the body.
NewCellBorrowing(bind) ==
  <<"let", bind, "=", "::std::mem::MaybeUninit::new", "(", "&", "self", ")", ";">>

\* let <bind> = ::std::mem::MaybeUninit::new(self);
NewCellStmt(bind) ==
  <<"let", bind, "=", "::std::mem::MaybeUninit::new", "(", "self", ")", ";">>

CellPtr == <<"&", "*", "maybe_uninit", ".", "as_ptr", "(", ")">>

SelfRefStmt == <<"let", "self_ref", "=">> \o CellPtr \o <<";">>

\* ::std::ptr::read(&self_ref.#accessor)
ReadField(accessor) ==
  <<"::std::ptr::read", "(", "&", "self_ref", ".", accessor, ")">>

\* ::std::ptr::read(#binding)
ReadBinding(binding) == <<"::std::ptr::read", "(", binding, ")">>

\* ---------------------------------------------------- derive_destructure
field_types(fields) == [k \in 1..Len(fields.list) |-> <<fields.list[k].ty>>]

\* A faulty variant of field_reads_named: every position reads the first field.
FieldReadsFirst(fields) ==
  [k \in 1..Len(fields.list) |-> ReadField(fields.list[1].ident)]

field_reads_named(fields) ==
  [k \in 1..Len(fields.list) |-> ReadField(fields.list[k].ident)]

field_reads_unnamed(fields) ==
  [k \in 1..Len(fields.list) |-> ReadField(IndexTok(k - 1))]

\* A faulty variant of TupleOf: commas separate the elements, none ends them.
TupleNoTrailing(elems) == <<"(">> \o SeparateComma(elems) \o <<")">>

\* (#(#elems,)*)
TupleOf(elems) == <<"(">> \o RepeatComma(elems) \o <<")">>

destructure_fields(input, types, reads) ==
  ImplHeader(input)
  \o <<"{", InlineAttr, "fn", "destructure", "(", "self", ")", "->">>
  \o TupleOf(types)
  \o <<"{">> \o NewCellStmt("maybe_uninit")
  \o <<"unsafe", "{">> \o SelfRefStmt \o TupleOf(reads)
  \o <<"}", "}", "}">>

\* A faulty variant of destructure_unit: the body is empty.
DestructureUnitDropping(input) ==
  ImplHeader(input)
  \o <<"{", InlineAttr, "fn", "destructure", "(", "self", ")", "{", "}", "}">>

destructure_unit(input) ==
  ImplHeader(input)
  \o <<"{", InlineAttr, "fn", "destructure", "(", "self", ")", "{">>
  \o NewCellStmt("_")
  \o <<"}", "}">>

PanicDestructureEnum ==
  "#[derive(destructure)] doesn't work on enums, use #[derive(remove_trait_impls)] instead."

PanicDestructureUnion == "#[derive(destructure)] doesn't work on unions."

Emitted(toks) == [panic |-> "", tokens |-> toks]

Panicked(msg) == [panic |-> msg, tokens |-> <<>>]

\* A faulty variant of derive_destructure: an enum is taken for a unit struct.
DestructureAcceptingEnum(input) ==
  IF input.data.kind = "Union" THEN Panicked(PanicDestructureUnion)
  ELSE Emitted(destructure_unit(input))

derive_destructure(input) ==
  LET data == input.data IN
  CASE data.kind = "Struct" ->
         (CASE data.fields.style = "Named" ->
                 Emitted(destructure_fields(input, field_types(data.fields),
                                            field_reads_named(data.fields)))
            [] data.fields.style = "Unnamed" ->
                 Emitted(destructure_fields(input, field_types(data.fields),
                                            field_reads_unnamed(data.fields)))
            [] OTHER -> Emitted(destructure_unit(input)))
    [] data.kind = "Enum" -> Panicked(PanicDestructureEnum)
    [] OTHER -> Panicked(PanicDestructureUnion)

\* ------------------------------------------------ derive_remove_trait_impls
\* #ident: #ty
fields_iter_named(fields) ==
  [k \in 1..Len(fields.list) |-> <<fields.list[k].ident, ":", fields.list[k].ty>>]

\* #ty
fields_iter_unnamed(fields) ==
  [k \in 1..Len(fields.list) |-> <<fields.list[k].ty>>]

\* #ident: ::std::ptr::read(&self_ref.#ident)
field_reads_iter_named(fields) ==
  [k \in 1..Len(fields.list) |->
     <<fields.list[k].ident, ":">> \o ReadField(fields.list[k].ident)]

\* ::std::ptr::read(&self_ref.#index)
field_reads_iter_unnamed(fields) ==
  [k \in 1..Len(fields.list) |-> ReadField(IndexTok(k - 1))]

\* #new_type_name #ty_generics #where_clause : the head of the auxiliary
\* declaration, after its struct or enum keyword.
AuxHeader(input) ==
  <<new_type_name(input.ident)>> \o ty_generics(input.generics)
  \o where_clause(input.generics)

\* impl ... { #[inline(always)] fn remove_trait_impls(self) -> #new_type_name #ty_generics {
RemoveFnOpen(input) ==
  ImplHeader(input)
  \o <<"{", InlineAttr, "fn", "remove_trait_impls", "(", "self", ")", "->",
       new_type_name(input.ident)>>
  \o ty_generics(input.generics) \o <<"{">>

remove_named(input) ==
  LET fields == input.data.fields IN
  <<"struct">> \o AuxHeader(input)
  \o <<"{">> \o RepeatComma(fields_iter_named(fields)) \o <<"}">>
  \o RemoveFnOpen(input)
  \o NewCellStmt("maybe_uninit")
  \o <<"unsafe", "{">> \o SelfRefStmt
  \o <<new_type_name(input.ident), "{">>
  \o RepeatComma(field_reads_iter_named(fields))
  \o <<"}", "}", "}", "}">>

remove_unnamed(input) ==
  LET fields == input.data.fields IN
  <<"struct">> \o AuxHeader(input)
  \o <<"(">> \o RepeatComma(fields_iter_unnamed(fields)) \o <<")", ";">>
  \o RemoveFnOpen(input)
  \o NewCellStmt("maybe_uninit")
  \o <<"unsafe", "{">> \o SelfRefStmt
  \o <<new_type_name(input.ident), "(">>
  \o RepeatComma(field_reads_iter_unnamed(fields))
  \o <<")", "}", "}", "}">>

\* A faulty variant of remove_unit: the body never builds the cell.
RemoveUnitDropping(input) ==
  <<"struct">> \o AuxHeader(input) \o <<";">>
  \o RemoveFnOpen(input)
  \o <<new_type_name(input.ident), "}", "}">>

remove_unit(input) ==
  <<"struct">> \o AuxHeader(input) \o <<";">>
  \o RemoveFnOpen(input)
  \o NewCellStmt("_")
  \o <<new_type_name(input.ident), "}", "}">>

\* One variant of the auxiliary enum.
variant_decl(variant) ==
  CASE variant.fields.style = "Named" ->
         <<variant.ident, "{">>
         \o RepeatComma(fields_iter_named(variant.fields)) \o <<"}">>
    [] variant.fields.style = "Unnamed" ->
         <<variant.ident, "(">>
         \o RepeatComma(fields_iter_unnamed(variant.fields)) \o <<")">>
    [] OTHER -> <<variant.ident>>

variants_iter(data) ==
  [k \in 1..Len(data.variants) |-> variant_decl(data.variants[k])]

\* A faulty variant of match_arm: every arm builds the first variant name.
MatchArmFirstVariant(name, variant) ==
  <<name, "::", variant.ident, "=>", new_type_name(name), "::", VariantIdents[1]>>

\* One arm of the match.
match_arm(name, variant) ==
  LET list == variant.fields.list
      n == Len(list)
      new == new_type_name(name)
  IN
  CASE variant.fields.style = "Named" ->
         <<name, "::", variant.ident, "{">>
         \o RepeatComma([k \in 1..n |-> <<"ref", list[k].ident>>])
         \o <<"}", "=>", new, "::", variant.ident, "{">>
         \o RepeatComma([k \in 1..n |->
                           <<list[k].ident, ":">> \o ReadBinding(list[k].ident)])
         \o <<"}">>
    [] variant.fields.style = "Unnamed" ->
         <<name, "::", variant.ident, "(">>
         \o RepeatComma([k \in 1..n |-> <<"ref", PlaceholderTok(k - 1)>>])
         \o <<")", "=>", new, "::", variant.ident, "(">>
         \o RepeatComma([k \in 1..n |-> ReadBinding(PlaceholderTok(k - 1))])
         \o <<")">>
    [] OTHER ->
         <<name, "::", variant.ident, "=>", new, "::", variant.ident>>

\* A faulty variant of match_arms_iter: the arms come in reverse order.
MatchArmsReversed(name, data) ==
  [k \in 1..Len(data.variants) |->
     match_arm(name, data.variants[Len(data.variants) + 1 - k])]

match_arms_iter(name, data) ==
  [k \in 1..Len(data.variants) |-> match_arm(name, data.variants[k])]

remove_enum(input) ==
  <<"enum">> \o AuxHeader(input)
  \o <<"{">> \o RepeatComma(variants_iter(input.data)) \o <<"}">>
  \o RemoveFnOpen(input)
  \o NewCellStmt("maybe_uninit")
  \o <<"unsafe", "{", "match">> \o CellPtr
  \o <<"{">> \o RepeatComma(match_arms_iter(input.ident, input.data))
  \o <<"}", "}", "}", "}">>

PanicRemoveUnion == "#[derive(remove_trait_impls)] doesn't work on unions."

derive_remove_trait_impls(input) ==
  LET data == input.data IN
  CASE data.kind = "Struct" ->
         (CASE data.fields.style = "Named" -> Emitted(remove_named(input))
            [] data.fields.style = "Unnamed" -> Emitted(remove_unnamed(input))
            [] OTHER -> Emitted(remove_unit(input)))
    [] data.kind = "Enum" -> Emitted(remove_enum(input))
    [] OTHER -> Panicked(PanicRemoveUnion)

\* ===================================================================
\* The compiler's reading of the emitted tokens.  Each parsing step hands
\* what it found to the next step as an argument.
\* -------------------------------------------------------------------
At(toks, i) == IF i \in 1..Len(toks) THEN toks[i] ELSE ""

\* Tokens a..b; positions beyond the end read as the empty token.
Sub(toks, a, b) ==
  IF b < a THEN <<>>
  ELSE IF 1 <= a /\ b <= Len(toks) THEN SubSeq(toks, a, b)
  ELSE [k \in 1..(b - a + 1) |-> At(toks, a + k - 1)]

From(toks, i) == SubSeq(toks, i, Len(toks))

Min(S) == CHOOSE x \in S : \A y \in S : x <= y

MinOrZero(S) == IF S = {} THEN 0 ELSE Min(S)

\* First index >= from holding one of the tokens ts; 0 when there is none.
IndexOf(toks, ts, from) == MinOrZero({i \in from..Len(toks) : toks[i] \in ts})

\* Nesting depth in front of token i.
Depth(toks, i) ==
  Cardinality({j \in 1..(i - 1) : toks[j] \in {"(", "{"}})
  - Cardinality({j \in 1..(i - 1) : toks[j] \in {")", "}"}})

\* The closer matching the opener at i; 0 when there is none.
ClosersAt(toks, i, d) ==
  {j \in (i + 1)..Len(toks) : toks[j] \in {")", "}"} /\ Depth(toks, j + 1) = d}

MatchClose(toks, i) == MinOrZero(ClosersAt(toks, i, Depth(toks, i)))

\* The set S of positions as an increasing sequence.
Sorted(S) ==
  [k \in 1..Cardinality(S) |->
     CHOOSE i \in S : Cardinality({j \in S : j < i}) = k - 1]

TopCommas(toks) ==
  {i \in 1..Len(toks) : toks[i] = "," /\ Depth(toks, i) = 0}

Chunks(toks, cuts) ==
  [k \in 1..(Len(cuts) - 1) |-> Sub(toks, cuts[k] + 1, cuts[k + 1] - 1)]

Chunked(ch) ==
  IF Len(ch[Len(ch)]) = 0
  THEN [items |-> SubSeq(ch, 1, Len(ch) - 1), trailing |-> Len(ch) > 1]
  ELSE [items |-> ch, trailing |-> FALSE]

\* A comma-separated list: its elements, and whether a comma ends it.
CommaList(toks) ==
  Chunked(Chunks(toks, <<0>> \o Sorted(TopCommas(toks)) \o <<Len(toks) + 1>>))

\* < ... > at position i, if any: the parameters as [name, bounds].
ParseParam(c) ==
  [name |-> At(c, 1), bounds |-> IF At(c, 2) = ":" THEN From(c, 3) ELSE <<>>]

ParamsOf(j, items) ==
  [ok |-> j # 0 /\ \A k \in 1..Len(items) : Len(items[k]) > 0,
   params |-> [k \in 1..Len(items) |-> ParseParam(items[k])],
   next |-> j + 1]

GenericsClosed(toks, i, j) == ParamsOf(j, CommaList(Sub(toks, i + 1, j - 1)).items)

GenericsAt(toks, i) ==
  IF At(toks, i) = "<"
  THEN GenericsClosed(toks, i, IndexOf(toks, {">"}, i))
  ELSE [ok |-> TRUE, params |-> <<>>, next |-> i]

\* where ... at position i, if any; the clause runs up to the item's body.
\* A parenthesis cannot follow a where clause: a positional record's
\* clause stands after its field list.
WhereUpTo(toks, i, j) ==
  [ok |-> j # 0 /\ At(toks, j) # "(" /\ j > i + 1,
   preds |-> Sub(toks, i + 1, j - 1),
   next |-> j]

NoWhere(i) == [ok |-> TRUE, preds |-> <<>>, next |-> i]

WhereAt(toks, i) ==
  IF At(toks, i) = "where"
  THEN WhereUpTo(toks, i, IndexOf(toks, {"{", ";", "("}, i))
  ELSE NoWhere(i)

NamedFieldsOf(items) ==
  [ok |-> \A k \in 1..Len(items) : Len(items[k]) = 3 /\ items[k][2] = ":",
   fields |-> [style |-> "Named",
               list |-> [k \in 1..Len(items) |->
                           [ident |-> At(items[k], 1), ty |-> At(items[k], 3)]]]]

UnnamedFieldsOf(items) ==
  [ok |-> \A k \in 1..Len(items) : Len(items[k]) = 1,
   fields |-> [style |-> "Unnamed",
               list |-> [k \in 1..Len(items) |->
                           [ident |-> "", ty |-> At(items[k], 1)]]]]

Delimited(close, p) ==
  [ok |-> close # 0 /\ p.ok, fields |-> p.fields, next |-> close + 1]

FieldsIn(toks, i, close, items) ==
  CASE At(toks, i) = "{" -> Delimited(close, NamedFieldsOf(items))
    [] At(toks, i) = "(" -> Delimited(close, UnnamedFieldsOf(items))
    [] OTHER -> [ok |-> TRUE, fields |-> UnitFields, next |-> i]

FieldsClosed(toks, i, close) ==
  FieldsIn(toks, i, close, CommaList(Sub(toks, i + 1, close - 1)).items)

\* The field list that opens at position i: { .. }, ( .. ) or none.
FieldsAt(toks, i) == FieldsClosed(toks, i, MatchClose(toks, i))

VariantOf(c, f) ==
  [ok |-> Len(c) > 0 /\ f.ok /\ f.next = Len(c) + 1,
   variant |-> [ident |-> At(c, 1), fields |-> f.fields]]

ParseVariant(c) == VariantOf(c, FieldsAt(c, 2))

NoDecl ==
  [ident |-> "", generics |-> NoGenerics,
   data |-> [kind |-> "None", fields |-> UnitFields, variants |-> <<>>]]

\* struct Ident Generics? Where? { fields }
\* struct Ident Generics? ( fields ) Where? ;
\* struct Ident Generics? Where? ;
StructEnd(toks, g, w1, f, w2) ==
  [ok |-> /\ g.ok /\ w1.ok /\ f.ok /\ w2.ok
          /\ IF f.fields.style = "Named"
             THEN w2.next = Len(toks) + 1
             ELSE w2.next = Len(toks) /\ At(toks, w2.next) = ";",
   decl |-> [ident |-> At(toks, 2),
             generics |-> [params |-> g.params,
                           where_clause |-> w1.preds \o w2.preds],
             data |-> [kind |-> "Struct", fields |-> f.fields,
                       variants |-> <<>>]]]

StructAfterFields(toks, g, w1, f) ==
  StructEnd(toks, g, w1, f,
            IF f.fields.style = "Unnamed" /\ Len(w1.preds) = 0
            THEN WhereAt(toks, f.next) ELSE NoWhere(f.next))

StructAfterWhere(toks, g, w1) ==
  StructAfterFields(toks, g, w1, FieldsAt(toks, w1.next))

StructAfterGenerics(toks, g) == StructAfterWhere(toks, g, WhereAt(toks, g.next))

ParseStruct(toks) == StructAfterGenerics(toks, GenericsAt(toks, 3))

\* enum Ident Generics? Where? { variants }
EnumEnd(toks, g, w, close, vs) ==
  [ok |-> /\ g.ok /\ w.ok /\ At(toks, w.next) = "{"
          /\ close = Len(toks) /\ close # 0
          /\ \A k \in 1..Len(vs) : vs[k].ok,
   decl |-> [ident |-> At(toks, 2),
             generics |-> [params |-> g.params, where_clause |-> w.preds],
             data |-> [kind |-> "Enum", fields |-> UnitFields,
                       variants |-> [k \in 1..Len(vs) |-> vs[k].variant]]]]

ParseVariants(items) == [k \in 1..Len(items) |-> ParseVariant(items[k])]

EnumBody(toks, g, w, close) ==
  EnumEnd(toks, g, w, close,
          ParseVariants(CommaList(Sub(toks, w.next + 1, close - 1)).items))

EnumAfterWhere(toks, g, w) == EnumBody(toks, g, w, MatchClose(toks, w.next))

EnumAfterGenerics(toks, g) == EnumAfterWhere(toks, g, WhereAt(toks, g.next))

ParseEnum(toks) == EnumAfterGenerics(toks, GenericsAt(toks, 3))

\* A type declaration item, or none.
ParseTypeItem(toks) ==
  CASE At(toks, 1) = "struct" -> ParseStruct(toks)
    [] At(toks, 1) = "enum" -> ParseEnum(toks)
    [] OTHER -> [ok |-> Len(toks) = 0, decl |-> NoDecl]

\* ---------------------------------------------- the member operation
\* The return type written after ->, or the empty product when none is
\* written.  ( T ) is the type T; ( T , ) is the one-element product.
ProductKind(l) == IF Len(l.items) = 1 /\ ~l.trailing THEN "bare" ELSE "tuple"

RetProduct(l) ==
  [kind |-> ProductKind(l),
   tys |-> [k \in 1..Len(l.items) |-> At(l.items[k], 1)],
   name |-> ""]

ParseRetType(ret) ==
  IF Len(ret) = 0 THEN [kind |-> "tuple", tys |-> <<>>, name |-> ""]
  ELSE IF ret[1] = "(" THEN RetProduct(CommaList(Sub(ret, 2, Len(ret) - 1)))
  ELSE [kind |-> "adt", tys |-> <<>>, name |-> ret[1]]

\* The statements of a function body in order, an unsafe block opened up;
\* an entry that is no let statement is the tail expression.
RECURSIVE StmtsFrom(_, _)
StmtsFrom(toks, semi) ==
  IF Len(toks) = 0 THEN <<>>
  ELSE IF toks[1] = "let" /\ semi # 0
  THEN <<Sub(toks, 1, semi)>>
       \o StmtsFrom(From(toks, semi + 1),
                    IndexOf(From(toks, semi + 1), {";"}, 1))
  ELSE IF toks[1] = "unsafe" /\ At(toks, 2) = "{"
          /\ At(toks, Len(toks)) = "}"
  THEN StmtsFrom(Sub(toks, 3, Len(toks) - 1),
                 IndexOf(Sub(toks, 3, Len(toks) - 1), {";"}, 1))
  ELSE <<toks>>

Stmts(toks) == StmtsFrom(toks, IndexOf(toks, {";"}, 1))

\* ::std::ptr::read(&self_ref.F)  or  ::std::ptr::read(V)
ParseRead(r) ==
  IF Len(r) = 7 /\ Sub(r, 1, 5) = <<"::std::ptr::read", "(", "&", "self_ref", ".">>
     /\ r[7] = ")"
  THEN [ok |-> TRUE, via |-> "self_ref", name |-> r[6]]
  ELSE IF Len(r) = 4 /\ r[1] = "::std::ptr::read" /\ r[2] = "(" /\ r[4] = ")"
  THEN [ok |-> TRUE, via |-> "binding", name |-> r[3]]
  ELSE [ok |-> FALSE, via |-> "", name |-> ""]

\* Ident  or  Ident :: Ident , and the position after it.
ParsePath(e) ==
  IF At(e, 2) = "::"
  THEN [ty |-> At(e, 1), variant |-> At(e, 3), next |-> 4]
  ELSE [ty |-> At(e, 1), variant |-> "", next |-> 2]

\* A constructor expression: a product, a parenthesised expression, or a
\* record / variant literal; its elements are the reads.
CtorProduct(e, l) ==
  [ok |-> At(e, Len(e)) = ")", kind |-> ProductKind(l),
   ty |-> "", variant |-> "", style |-> "Unnamed", names |-> <<>>,
   elems |-> l.items]

CtorItems(e, p, close, items) ==
  CASE At(e, p.next) = "{" ->
         [ok |-> close = Len(e)
                 /\ \A k \in 1..Len(items) : At(items[k], 2) = ":",
          kind |-> "adt", ty |-> p.ty, variant |-> p.variant,
          style |-> "Named",
          names |-> [k \in 1..Len(items) |-> At(items[k], 1)],
          elems |-> [k \in 1..Len(items) |-> From(items[k], 3)]]
    [] At(e, p.next) = "(" ->
         [ok |-> close = Len(e), kind |-> "adt", ty |-> p.ty,
          variant |-> p.variant, style |-> "Unnamed", names |-> <<>>,
          elems |-> items]
    [] OTHER ->
         [ok |-> p.next = Len(e) + 1, kind |-> "adt", ty |-> p.ty,
          variant |-> p.variant, style |-> "Unit", names |-> <<>>,
          elems |-> <<>>]

CtorLiteral(e, p, close) ==
  CtorItems(e, p, close, CommaList(Sub(e, p.next + 1, close - 1)).items)

CtorPath(e, p) == CtorLiteral(e, p, MatchClose(e, p.next))

ParseCtor(e) ==
  IF Len(e) = 0
  THEN [ok |-> TRUE, kind |-> "tuple", ty |-> "", variant |-> "",
        style |-> "Unnamed", names |-> <<>>, elems |-> <<>>]
  ELSE IF e[1] = "(" THEN CtorProduct(e, CommaList(Sub(e, 2, Len(e) - 1)))
  ELSE CtorPath(e, ParsePath(e))

\* A pattern  Ty::V { ref a, .. }  /  Ty::V ( ref a, .. )  /  Ty::V ; the
\* empty pattern stands for "no match": the record itself.
PatItems(q, p, close, items) ==
  [ok |-> IF At(q, p.next) \in {"{", "("}
          THEN /\ close = Len(q)
               /\ \A k \in 1..Len(items) :
                    Len(items[k]) = 2 /\ items[k][1] = "ref"
          ELSE p.next = Len(q) + 1,
   ty |-> p.ty,
   variant |-> p.variant,
   style |-> CASE At(q, p.next) = "{" -> "Named"
               [] At(q, p.next) = "(" -> "Unnamed"
               [] OTHER -> "Unit",
   vars |-> [k \in 1..Len(items) |-> At(items[k], 2)]]

PatLiteral(q, p, close) ==
  PatItems(q, p, close, CommaList(Sub(q, p.next + 1, close - 1)).items)

PatPath(q, p) == PatLiteral(q, p, MatchClose(q, p.next))

ParsePat(q) ==
  IF Len(q) = 0
  THEN [ok |-> TRUE, ty |-> "", variant |-> "", style |-> "None", vars |-> <<>>]
  ELSE PatPath(q, ParsePath(q))

\* The position of the field an accessor names: a field name of a named
\* record, an index literal of a positional one; 0 when there is none.
FieldIndex(fields, accessor) ==
  MinOrZero({k \in 1..Len(fields.list) :
               \/ fields.style = "Named" /\ fields.list[k].ident = accessor
               \/ fields.style = "Unnamed" /\ IndexTok(k - 1) = accessor})

\* The fields of variant v of a declaration (of the record itself for "").
NoFields == [style |-> "None", list |-> <<>>]

VariantAt(decl, k) == IF k = 0 THEN NoFields ELSE decl.data.variants[k].fields

FieldsOfVariant(decl, v) ==
  CASE decl.data.kind = "Struct" ->
         IF v = "" THEN decl.data.fields ELSE NoFields
    [] decl.data.kind = "Enum" ->
         VariantAt(decl, MinOrZero({k \in 1..Len(decl.data.variants) :
                                      decl.data.variants[k].ident = v}))
    [] OTHER -> NoFields

\* Which field of the scrutinee a variable of a pattern is bound to: by
\* name in a named pattern, by position in a positional one.
BoundAt(pat, fields, var, k) ==
  IF k = 0 THEN 0
  ELSE IF pat.style = "Named" THEN FieldIndex(fields, var)
  ELSE IF k <= Len(fields.list) THEN k ELSE 0

BindIndex(pat, fields, var) ==
  BoundAt(pat, fields, var,
          MinOrZero({k \in 1..Len(pat.vars) : pat.vars[k] = var}))

PatOk(pat, fields, inputDecl) ==
  /\ pat.ok
  /\ IF pat.style = "None" THEN inputDecl.data.kind = "Struct"
     ELSE /\ pat.ty = inputDecl.ident
          /\ inputDecl.data.kind = "Enum"
          /\ fields.style = pat.style
          /\ Len(pat.vars) = Len(fields.list)
          /\ {BindIndex(pat, fields, pat.vars[k]) : k \in 1..Len(pat.vars)}
               = 1..Len(fields.list)

\* One arm, lowered: the fields read, in evaluation order (srcs), and
\* the position each value takes in the value constructed (dests).  The
\* types must agree: each value lands in a place of its field's type.
LowerResolved(pat, ctor, from, to, reads, srcs, dests, ctx) ==
  [ok |->
     /\ PatOk(pat, from, ctx.input) /\ ctor.ok
     /\ \A k \in 1..Len(reads) :
          /\ reads[k].ok /\ srcs[k] # 0 /\ dests[k] # 0
          /\ reads[k].via = "self_ref" => ctx.view /\ pat.style = "None"
     /\ ctor.kind = ctx.ret.kind
     /\ IF ctor.kind = "adt"
        THEN /\ ctor.ty = ctx.aux.ident /\ ctx.ret.name = ctx.aux.ident
             /\ to.style = ctor.style
             /\ Len(to.list) = Len(reads)
             /\ {dests[k] : k \in 1..Len(reads)} = 1..Len(reads)
        ELSE Len(ctx.ret.tys) = Len(reads)
     /\ \A k \in 1..Len(reads) :
          srcs[k] # 0 /\ dests[k] # 0 =>
            from.list[srcs[k]].ty
              = IF ctor.kind = "adt" THEN At(to.list, dests[k]).ty
                ELSE ctx.ret.tys[k],
   variant |-> pat.variant,
   srcs |-> srcs,
   dests |-> dests,
   ctor |-> [kind |-> ctor.kind, ty |-> ctor.ty, variant |-> ctor.variant]]

LowerReads(pat, ctor, from, to, reads, ctx) ==
  LowerResolved(pat, ctor, from, to, reads,
                [k \in 1..Len(reads) |->
                   IF reads[k].via = "self_ref"
                   THEN FieldIndex(from, reads[k].name)
                   ELSE BindIndex(pat, from, reads[k].name)],
                [k \in 1..Len(reads) |->
                   IF ctor.kind = "adt" /\ ctor.style = "Named"
                   THEN FieldIndex(to, ctor.names[k]) ELSE k],
                ctx)

LowerParsed(pat, ctor, ctx) ==
  LowerReads(pat, ctor,
             FieldsOfVariant(ctx.input, pat.variant),
             IF ctor.kind = "adt" THEN FieldsOfVariant(ctx.aux, ctor.variant)
             ELSE NoFields,
             [k \in 1..Len(ctor.elems) |-> ParseRead(ctor.elems[k])],
             ctx)

LowerArm(patToks, exprToks, ctx) ==
  LowerParsed(ParsePat(patToks), ParseCtor(exprToks), ctx)

SplitArm(a, arrow, ctx) ==
  IF arrow = 0 THEN LowerArm(<<"?">>, <<>>, ctx)
  ELSE LowerArm(Sub(a, 1, arrow - 1), From(a, arrow + 1), ctx)

LowerArms(armToks, ctx) ==
  [k \in 1..Len(armToks) |->
     SplitArm(armToks[k], IndexOf(armToks[k], {"=>"}, 1), ctx)]

\* let B = ::std::mem::MaybeUninit::new(self);   moves the receiver in;
\* let B = ::std::mem::MaybeUninit::new(&self);  stores a reference to it.
ParseCellStmt(st) ==
  IF Len(st) = 8 /\ Sub(st, 3, 6) = <<"=", "::std::mem::MaybeUninit::new", "(", "self">>
  THEN [ok |-> TRUE, bind |-> st[2], moves |-> TRUE]
  ELSE IF Len(st) = 9
          /\ Sub(st, 3, 7) = <<"=", "::std::mem::MaybeUninit::new", "(", "&", "self">>
  THEN [ok |-> TRUE, bind |-> st[2], moves |-> FALSE]
  ELSE [ok |-> FALSE, bind |-> "", moves |-> FALSE]

\* The variants of a tagged union, as a set of names.
VariantNames(decl) ==
  {decl.data.variants[k].ident : k \in 1..Len(decl.data.variants)}

BodyEnd(lets, tails, cell, isMatch, arms, ctx) ==
  [ok |->
     /\ Len(tails) <= 1 /\ Len(lets) \in 0..2
     /\ Len(lets) > 0 => cell.ok
     /\ Len(lets) = 2 => cell.bind = "maybe_uninit" /\ lets[2] = SelfRefStmt
     /\ isMatch =>
          /\ Sub(tails[1], 2, 9) = CellPtr \o <<"{">>
          /\ cell.bind = "maybe_uninit"
          /\ At(tails[1], Len(tails[1])) = "}"
          \* exhaustive: every variant has an arm; a reference to a
          \* tagged union without variants still counts as inhabited
          /\ {arms[k].variant : k \in 1..Len(arms)} = VariantNames(ctx.input)
          /\ Len(arms) > 0
     /\ \A k \in 1..Len(arms) : arms[k].ok,
   cell |-> [present |-> Len(lets) > 0, bind |-> cell.bind,
             moves |-> cell.moves],
   view |-> Len(lets) = 2,
   isMatch |-> isMatch,
   arms |-> [k \in 1..Len(arms) |->
               [variant |-> arms[k].variant, srcs |-> arms[k].srcs,
                dests |-> arms[k].dests, ctor |-> arms[k].ctor]]]

BodyTail(lets, tails, tail, ctx) ==
  BodyEnd(lets, tails,
          ParseCellStmt(IF Len(lets) = 0 THEN <<>> ELSE lets[1]),
          At(tail, 1) = "match",
          IF At(tail, 1) = "match"
          THEN LowerArms(CommaList(Sub(tail, 10, Len(tail) - 1)).items, ctx)
          ELSE LowerArms(<<<<"=>">> \o tail>>, ctx),
          [ctx EXCEPT !.view = Len(lets) = 2 /\ At(tail, 1) # "match"])

BodyLets(lets, tails, ctx) ==
  BodyTail(lets, tails, IF Len(tails) = 0 THEN <<>> ELSE tails[1],
           [ctx EXCEPT !.view = Len(lets) = 2])

BodyStmts(sts, ctx) ==
  BodyLets(SelectSeq(sts, LAMBDA st : At(st, 1) = "let"),
           SelectSeq(sts, LAMBDA st : At(st, 1) # "let"), ctx)

LowerBody(body, ctx) == BodyStmts(Stmts(body), ctx)

\* impl Generics? Ident Generics? Where? { #[inline(always)] fn f(self) [-> R] { body } }
ImplEnd(toks, g, tg, w, bodyOpen, bodyClose, ret, body, inputDecl) ==
  [ok |->
     /\ At(toks, 1) = "impl" /\ g.ok /\ tg.ok /\ w.ok
     /\ At(toks, g.next) = inputDecl.ident
     /\ Sub(toks, w.next, w.next + 2) = <<"{", InlineAttr, "fn">>
     /\ Sub(toks, w.next + 4, w.next + 6) = <<"(", "self", ")">>
     /\ At(toks, w.next + 7) \in {"->", "{"}
     /\ bodyOpen # 0 /\ bodyClose # 0 /\ bodyClose + 1 = Len(toks)
     /\ At(toks, Len(toks)) = "}"
     /\ body.ok,
   owner |-> [params |-> g.params, where_clause |-> w.preds],
   fname |-> At(toks, w.next + 3),
   ret |-> ret,
   body |-> body]

ImplBody(toks, g, tg, w, bodyOpen, bodyClose, ret, inputDecl, auxDecl) ==
  ImplEnd(toks, g, tg, w, bodyOpen, bodyClose, ret,
          LowerBody(Sub(toks, bodyOpen + 1, bodyClose - 1),
                    [input |-> inputDecl, aux |-> auxDecl, ret |-> ret,
                     view |-> FALSE]),
          inputDecl)

ImplRet(toks, g, tg, w, bodyOpen, inputDecl, auxDecl) ==
  ImplBody(toks, g, tg, w, bodyOpen, MatchClose(toks, bodyOpen),
           ParseRetType(IF At(toks, w.next + 7) = "->"
                        THEN Sub(toks, w.next + 8, bodyOpen - 1) ELSE <<>>),
           inputDecl, auxDecl)

ImplAfterWhere(toks, g, tg, w, inputDecl, auxDecl) ==
  ImplRet(toks, g, tg, w, IndexOf(toks, {"{"}, w.next + 7), inputDecl, auxDecl)

ImplAfterTy(toks, g, tg, inputDecl, auxDecl) ==
  ImplAfterWhere(toks, g, tg, WhereAt(toks, tg.next), inputDecl, auxDecl)

ImplAfterGenerics(toks, g, inputDecl, auxDecl) ==
  ImplAfterTy(toks, g, GenericsAt(toks, g.next + 1), inputDecl, auxDecl)

ParseImpl(toks, inputDecl, auxDecl) ==
  ImplAfterGenerics(toks, GenericsAt(toks, 2), inputDecl, auxDecl)

\* The whole expansion: the auxiliary declaration (if any) and the impl.
Linked(aux, imp) ==
  [ok |-> aux.ok /\ imp.ok,
   auxOk |-> aux.ok,
   implOk |-> imp.ok,
   aux |-> aux.decl,
   owner |-> imp.owner,
   fname |-> imp.fname,
   ret |-> imp.ret,
   body |-> imp.body]

CompileItems(inputDecl, aux, implToks) ==
  Linked(aux, ParseImpl(implToks, inputDecl, aux.decl))

CompileAt(inputDecl, toks, at) ==
  CompileItems(inputDecl,
               ParseTypeItem(IF at = 0 THEN toks ELSE Sub(toks, 1, at - 1)),
               IF at = 0 THEN <<>> ELSE From(toks, at))

Compile(inputDecl, toks) == CompileAt(inputDecl, toks, IndexOf(toks, {"impl"}, 1))

\* ===================================================================
\* State: one declaration, its expansion, the compiled expansion, and one
\* call of the generated member operation.
\* -------------------------------------------------------------------
VARIABLES
  input,      \* the DeriveInput handed to the macro
  derive,     \* which derive macro is applied
  hasDrop,    \* whether the user wrote impl Drop for the input type
  output,     \* the macro's result: a panic message or the tokens emitted
  program,    \* the compiler's reading of the tokens
  pc,         \* where the run stands
  receiver,   \* the by-value self of the call: [owned, val]
  cell,       \* the MaybeUninit: [state, holds, val]
  arm,        \* the arm of the body that was selected (0: none yet)
  reads,      \* the fields read so far, in order (positions in the input)
  got,        \* the values those reads produced
  result,     \* the value handed back to the caller
  cleanups    \* how many times the user's Drop::drop has run

vars ==
  <<input, derive, hasDrop, output, program, pc, receiver, cell, arm, reads,
    got, result, cleanups>>

NoValue == [kind |-> "none", ty |-> "", variant |-> "", vals |-> <<>>]

NoCell == [state |-> "none", holds |-> "none", val |-> NoValue]

NoProgram == Compile(NoDecl, <<>>)

\* The values of a declared type: every variant, every choice of fields.
\* The bits of field k are <<payload, k>>: no two fields hold the same.
Bits(p, n) == [k \in 1..n |-> <<p, k>>]

Instances(decl) ==
  IF decl.data.kind = "Struct"
  THEN {[kind |-> "adt", ty |-> decl.ident, variant |-> "",
         vals |-> Bits(p, Len(decl.data.fields.list))] : p \in Payloads}
  ELSE {[kind |-> "adt", ty |-> decl.ident,
         variant |-> decl.data.variants[k].ident,
         vals |-> Bits(p, Len(decl.data.variants[k].fields.list))] :
          p \in Payloads, k \in 1..Len(decl.data.variants)}

\* Whether dropping a value of type ty runs a user-written cleanup: the
\* user's impl Drop on the input, or an impl Drop among the tokens.
ImplsDrop(toks, ty) ==
  \E i \in 1..Len(toks) :
    Sub(toks, i, i + 3) = <<"impl", "Drop", "for", ty>>

HasCleanup(ty) ==
  \/ hasDrop /\ ty = input.ident
  \/ ImplsDrop(output.tokens, ty)

Init ==
  /\ input \in DeriveInputs
  /\ derive \in Derives
  /\ hasDrop = FALSE
  /\ output = Emitted(<<>>)
  /\ program = NoProgram
  /\ pc = "input"
  /\ receiver = [owned |-> FALSE, val |-> NoValue]
  /\ cell = NoCell
  /\ arm = 0
  /\ reads = <<>>
  /\ got = <<>>
  /\ result = NoValue
  /\ cleanups = 0

\* The macro runs on the declaration.
Expand ==
  /\ pc = "input"
  /\ output' = IF derive = "destructure" THEN derive_destructure(input)
               ELSE derive_remove_trait_impls(input)
  /\ pc' = IF output'.panic = "" THEN "expanded" ELSE "rejected"
  /\ UNCHANGED <<input, derive, hasDrop, program, receiver, cell, arm, reads,
                 got, result, cleanups>>

\* The compiler reads the crate: the tokens spliced after the declaration
\* and the user's own items, among them an impl Drop for the input type or
\* none.  The auxiliary type may not reuse the name of the input type.
CompileExpansion ==
  /\ pc = "expanded"
  /\ program' = Compile(input, output.tokens)
  /\ pc' = IF program'.ok /\ program'.aux.ident # input.ident
           THEN "compiled" ELSE "compile_error"
  /\ hasDrop' \in BOOLEAN
  /\ UNCHANGED <<input, derive, output, receiver, cell, arm, reads, got,
                 result, cleanups>>

\* A caller lets an instance go out of scope without calling the operation.
NormalDrop ==
  /\ pc = "compiled"
  /\ \E inst \in Instances(input) :
       receiver' = [owned |-> FALSE, val |-> inst]
  /\ cleanups' = IF HasCleanup(input.ident) THEN cleanups + 1 ELSE cleanups
  /\ pc' = "dropped"
  /\ UNCHANGED <<input, derive, hasDrop, output, program, cell, arm, reads,
                 got, result>>

\* A caller calls the generated operation on an instance, by value.
Call ==
  /\ pc = "compiled"
  /\ \E inst \in Instances(input) :
       receiver' = [owned |-> TRUE, val |-> inst]
  /\ pc' = "entry"
  /\ UNCHANGED <<input, derive, hasDrop, output, program, cell, arm, reads,
                 got, result, cleanups>>

\* let maybe_uninit = MaybeUninit::new(self);  or  let _ = ...;
\* A cell bound to _ is a temporary: it is dropped as the statement ends.
\* Dropping a MaybeUninit never drops what it holds.
NewCell ==
  /\ pc = "entry"
  /\ program.body.cell.present
  /\ cell' = [state |-> IF program.body.cell.bind = "_" THEN "dead" ELSE "live",
              holds |-> IF program.body.cell.moves THEN "value" ELSE "ref",
              val |-> receiver.val]
  /\ receiver' = [receiver EXCEPT !.owned = ~program.body.cell.moves]
  /\ pc' = "cell"
  /\ UNCHANGED <<input, derive, hasDrop, output, program, arm, reads, got,
                 result, cleanups>>

\* let self_ref = &*maybe_uninit.as_ptr();
TakeView ==
  /\ pc = "cell"
  /\ program.body.view
  /\ cell.state = "live"
  /\ arm' = 1
  /\ pc' = "reading"
  /\ UNCHANGED <<input, derive, hasDrop, output, program, receiver, cell,
                 reads, got, result, cleanups>>

\* match &*maybe_uninit.as_ptr() { .. } : the first arm whose pattern
\* names the variant of the instance; its fields are bound by reference.
SelectArm ==
  /\ pc = "cell"
  /\ program.body.isMatch
  /\ cell.state = "live"
  /\ LET hits == {k \in 1..Len(program.body.arms) :
                    program.body.arms[k].variant = cell.val.variant}
     IN /\ hits # {}
        /\ arm' = Min(hits)
  /\ pc' = "reading"
  /\ UNCHANGED <<input, derive, hasDrop, output, program, receiver, cell,
                 reads, got, result, cleanups>>

\* ::std::ptr::read(..): the next read of the selected arm copies the bits
\* of one field out of the cell.
Read ==
  /\ pc = "reading"
  /\ Len(got) < Len(program.body.arms[arm].srcs)
  /\ LET k == program.body.arms[arm].srcs[Len(got) + 1] IN
     /\ reads' = Append(reads, k)
     /\ got' = Append(got, cell.val.vals[k])
  /\ UNCHANGED <<input, derive, hasDrop, output, program, pc, receiver, cell,
                 arm, result, cleanups>>

\* The value a lowered arm constructs from the values read.
Construct(a, vs) ==
  [kind |-> a.ctor.kind, ty |-> a.ctor.ty, variant |-> a.ctor.variant,
   vals |-> [d \in 1..Len(vs) |->
               vs[CHOOSE k \in 1..Len(vs) : a.dests[k] = d]]]

\* The tail expression's value is constructed once its reads are done; a
\* body without field list has neither view nor match.
Build ==
  /\ \/ pc = "reading" /\ Len(got) = Len(program.body.arms[arm].srcs)
     \/ /\ pc = IF program.body.cell.present THEN "cell" ELSE "entry"
        /\ ~program.body.view /\ ~program.body.isMatch
  /\ result' = Construct(program.body.arms[IF arm = 0 THEN 1 ELSE arm], got)
  /\ pc' = "built"
  /\ UNCHANGED <<input, derive, hasDrop, output, program, receiver, cell, arm,
                 reads, got, cleanups>>

\* The body's scope ends: the cell is dropped (a no-op on what it holds),
\* then the receiver, if the body never moved it, with its cleanup.
ScopeEnd ==
  /\ pc = "built"
  /\ cell' = [cell EXCEPT !.state = "dead"]
  /\ receiver' = [receiver EXCEPT !.owned = FALSE]
  /\ cleanups' = IF receiver.owned /\ HasCleanup(receiver.val.ty)
                 THEN cleanups + 1 ELSE cleanups
  /\ pc' = "returned"
  /\ UNCHANGED <<input, derive, hasDrop, output, program, arm, reads, got,
                 result>>

\* The caller is done with what it was handed.
Discard ==
  /\ pc = "returned"
  /\ cleanups' = IF result.kind = "adt" /\ HasCleanup(result.ty)
                 THEN cleanups + 1 ELSE cleanups
  /\ pc' = "discarded"
  /\ UNCHANGED <<input, derive, hasDrop, output, program, receiver, cell, arm,
                 reads, got, result>>

Next ==
  \/ Expand
  \/ CompileExpansion
  \/ NormalDrop
  \/ Call
  \/ NewCell
  \/ TakeView
  \/ SelectArm
  \/ Read
  \/ Build
  \/ ScopeEnd
  \/ Discard

Spec == Init /\ [][Next]_vars

\* ===================================================================
\* Properties.
\* -------------------------------------------------------------------
\* A shape the derive in use accepts.
Supported ==
  \/ input.data.kind = "Struct"
  \/ input.data.kind = "Enum" /\ derive = "remove_trait_impls"

\* The generated operation has been called / has returned.
Called == pc \in {"entry", "cell", "reading", "built", "returned", "discarded"}

Returned == pc \in {"returned", "discarded"}

\* The declared fields of the instance the operation was called on: of the
\* struct, or of the instance's own variant.
ActualFields ==
  IF input.data.kind = "Struct" THEN input.data.fields.list
  ELSE LET k == CHOOSE i \in 1..Len(input.data.variants) :
                  input.data.variants[i].ident = receiver.val.variant
       IN input.data.variants[k].fields.list

TimesRead(k) == Cardinality({i \in 1..Len(reads) : reads[i] = k})

AuxName == input.ident \o "WithoutTraitImpls"

\* C1: when the input type has a user-written Drop, no step of a call of the
\* generated destructure runs it: not the body, not the end of the cell's
\* scope, not the caller's discarding of the tuple.
NoCleanupDestructure ==
  (derive = "destructure" /\ hasDrop /\ Called) => cleanups = 0

NoCleanupDestructureWitness ==
  /\ derive = "destructure" /\ hasDrop /\ pc = "discarded"
  /\ Len(reads) >= 2 /\ cleanups = 0

\* C2: when the input type has a user-written Drop, no step of a call of the
\* generated remove_trait_impls runs it, and the value returned is of a type
\* other than the input's that has no user-written Drop, so discarding it
\* runs none either.
NoCleanupRemove ==
  (derive = "remove_trait_impls" /\ hasDrop /\ Called) =>
    /\ cleanups = 0
    /\ pc \in {"built", "returned", "discarded"} =>
         /\ result.kind = "adt"
         /\ result.ty # input.ident
         /\ ~HasCleanup(result.ty)

NoCleanupRemoveWitness ==
  /\ derive = "remove_trait_impls" /\ hasDrop /\ pc = "discarded"
  /\ input.data.kind = "Enum" /\ Len(reads) >= 1 /\ cleanups = 0

\* C3: destructure on a struct with n named or positional fields returns a
\* tuple of n elements, declared as a tuple type of n elements; element k
\* has the type and the value of field k.  One field gives a 1-tuple.
TupleResult ==
  (/\ derive = "destructure"
   /\ input.data.fields.style \in {"Named", "Unnamed"}
   /\ Returned) =>
    LET list == input.data.fields.list IN
    /\ program.ret.kind = "tuple"
    /\ Len(program.ret.tys) = Len(list)
    /\ result.kind = "tuple"
    /\ Len(result.vals) = Len(list)
    /\ \A k \in 1..Len(list) :
         /\ program.ret.tys[k] = list[k].ty
         /\ result.vals[k] = receiver.val.vals[k]

TupleResultWitness ==
  /\ derive = "destructure" /\ pc = "returned"
  /\ Len(input.data.fields.list) = 1
  /\ result.kind = "tuple" /\ Len(result.vals) = 1

\* C4: remove_trait_impls returns a value of the auxiliary type, of the
\* variant of the same name as the instance's, whose fields (declared as
\* the input's are) hold what the instance's fields held at the call.
FieldsPreserved ==
  (derive = "remove_trait_impls" /\ Returned) =>
    /\ result.kind = "adt"
    /\ result.ty = AuxName
    /\ program.aux.ident = AuxName
    /\ program.aux.data = input.data
    /\ result.variant = receiver.val.variant
    /\ result.vals = receiver.val.vals

FieldsPreservedWitness ==
  /\ derive = "remove_trait_impls" /\ pc = "returned"
  /\ Len(input.data.variants) = 2
  /\ receiver.val.variant = input.data.variants[2].ident
  /\ result.variant = receiver.val.variant
  /\ Len(result.vals) >= 1

\* C5: destructure on an enum panics with the message that points to
\* remove_trait_impls; either derive on a union panics with its message
\* that unions do not work; a panic emits no tokens and nothing is compiled;
\* a struct, and an enum under remove_trait_impls, never panics.
Rejection ==
  pc # "input" =>
    /\ (derive = "destructure" /\ input.data.kind = "Enum") =>
         output.panic =
           "#[derive(destructure)] doesn't work on enums, use #[derive(remove_trait_impls)] instead."
    /\ input.data.kind = "Union" =>
         output.panic = "#[derive(" \o derive \o ")] doesn't work on unions."
    /\ output.panic # "" =>
         /\ output.tokens = <<>>
         /\ pc = "rejected"
         /\ program = NoProgram
    /\ Supported => (output.panic = "" /\ output.tokens # <<>> /\ pc # "rejected")

RejectionWitness ==
  /\ pc = "rejected" /\ derive = "destructure" /\ input.data.kind = "Enum"
  /\ Len(input.data.variants) >= 1

\* C6: the auxiliary declaration read back from the tokens of
\* remove_trait_impls has the input's generic parameters with their bounds,
\* and the input's where clause.
AuxKeepsBounds ==
  (/\ derive = "remove_trait_impls"
   /\ pc \in {"compiled", "compile_error"}
   /\ program.auxOk) =>
    /\ program.aux.generics.params = input.generics.params
    /\ program.aux.generics.where_clause = input.generics.where_clause

\* C7: the tokens of remove_trait_impls on a supported declaration open with
\* a declaration of the type named <input>WithoutTraitImpls whose fields or
\* variants are the input's: same style, names, types, order.
AuxSameShape ==
  (/\ derive = "remove_trait_impls"
   /\ pc \in {"compiled", "compile_error"}) =>
    /\ program.auxOk
    /\ program.aux.ident = AuxName
    /\ program.aux.data = input.data

\* C8: destructure on a struct without fields (unit, (), {}) still moves
\* the receiver into a MaybeUninit, reads nothing, and returns ().
ZeroFields ==
  (/\ derive = "destructure"
   /\ input.data.kind = "Struct"
   /\ Len(input.data.fields.list) = 0
   /\ Returned) =>
    /\ cell.holds = "value"
    /\ cell.val = receiver.val
    /\ cell.state = "dead"
    /\ ~receiver.owned
    /\ reads = <<>>
    /\ program.ret = [kind |-> "tuple", tys |-> <<>>, name |-> ""]
    /\ result = [kind |-> "tuple", ty |-> "", variant |-> "", vals |-> <<>>]

ZeroFieldsWitness ==
  /\ derive = "destructure" /\ pc = "returned" /\ hasDrop
  /\ input.data.fields.style = "Unit"
  /\ cell.holds = "value" /\ reads = <<>>

\* C9: no field of the instance is ever read twice, and once the result is
\* built every field of the instance (of its variant) has been read once;
\* the result then holds the bits of each field in exactly one place.
ExactlyOnce ==
  Called =>
    /\ \A k \in 1..Len(reads) : reads[k] \in 1..Len(ActualFields)
    /\ \A k \in 1..Len(ActualFields) : TimesRead(k) <= 1
    /\ pc \in {"built", "returned", "discarded"} =>
         /\ \A k \in 1..Len(ActualFields) :
              /\ TimesRead(k) = 1
              /\ Cardinality({d \in 1..Len(result.vals) :
                                result.vals[d] = receiver.val.vals[k]}) = 1
         /\ Len(result.vals) = Len(ActualFields)

ExactlyOnceWitness ==
  /\ derive = "remove_trait_impls" /\ pc = "returned"
  /\ input.data.kind = "Enum"
  /\ reads = <<1, 2>>

\* C10: the receiver is moved into the cell before anything is read; a
\* read happens only while the cell is alive and holds the instance; the
\* cell is dead when the operation has returned, and nothing but the result
\* then owns the fields.
OrderingState ==
  /\ pc = "reading" =>
       /\ cell.state = "live" /\ cell.holds = "value"
       /\ cell.val = receiver.val /\ ~receiver.owned
  /\ Len(reads) > 0 => cell.state # "none"
  /\ Returned =>
       /\ cell.state = "dead" /\ cell.holds = "value"
       /\ ~receiver.owned
       /\ Len(reads) = Len(ActualFields)

OrderingStep ==
  /\ reads' # reads =>
       /\ cell.state = "live" /\ cell.holds = "value" /\ cell' = cell
       /\ pc' # "returned"
  /\ cell.state = "dead" => reads' = reads
  /\ (cell.state = "none" /\ cell'.state # "none") =>
       (pc = "entry" /\ reads = <<>> /\ cell'.val = receiver.val)

Ordering == []OrderingState /\ [][OrderingStep]_vars

OrderingWitness ==
  /\ pc = "returned" /\ Len(reads) >= 2
  /\ cell.state = "dead" /\ cell.holds = "value" /\ ~receiver.owned

\* C11: the match that remove_trait_impls emits for an enum has as many
\* arms as the enum has variants; arm k matches variant k of the input and
\* constructs the variant of that name of the auxiliary type; no arm is a
\* wildcard; the variant of an instance is matched by one arm only, the one
\* that is taken.
OneArmPerVariant ==
  (/\ derive = "remove_trait_impls"
   /\ input.data.kind = "Enum"
   /\ pc \notin {"input", "expanded"}) =>
    LET vs == input.data.variants
        arms == program.body.arms
        toks == output.tokens
    IN
    /\ program.body.isMatch
    /\ Len(arms) = Len(vs)
    /\ \A k \in 1..Len(vs) :
         /\ arms[k].variant = vs[k].ident
         /\ arms[k].ctor = [kind |-> "adt", ty |-> AuxName,
                            variant |-> vs[k].ident]
    /\ Cardinality({i \in 1..Len(toks) : toks[i] = "=>"}) = Len(vs)
    /\ \A i \in 1..Len(toks) : toks[i] # "_"
    /\ pc \in {"reading", "built", "returned", "discarded"} =>
         /\ {k \in 1..Len(arms) : arms[k].variant = receiver.val.variant}
              = {arm}
         /\ result.kind = "adt" => result.variant = vs[arm].ident

OneArmPerVariantWitness ==
  /\ derive = "remove_trait_impls" /\ input.data.kind = "Enum"
  /\ Len(input.data.variants) = 2 /\ Len(program.body.arms) = 2
  /\ pc = "built" /\ arm = 2
  /\ program.body.arms[2].variant = receiver.val.variant

\* C12: for every supported declaration, the tokens emitted are accepted by
\* the grammar: the owner of the member operation is read back as an impl
\* with the input's generics and where clause, and the auxiliary
\* declaration of remove_trait_impls is read back as a declaration with the
\* input's where clause.
WhereClauseWellPlaced ==
  (Supported /\ pc \in {"compiled", "compile_error"}) =>
    /\ program.owner = input.generics
    /\ derive = "remove_trait_impls" =>
         /\ program.auxOk
         /\ program.aux.generics.where_clause = input.generics.where_clause
====
